---- MODULE Spec2Model ----
(***************************************************************************)
(* StoryHub: story metadata (collection "storydetails") and story bodies   *)
(* (collection "storycontent") kept consistent by application-level        *)
(* sequencing.  Every storage call of a handler is one atomic step; the    *)
(* handlers of concurrent requests and the orphan reconciler interleave    *)
(* between storage calls.                                                  *)
(***************************************************************************)
EXTENDS Integers, Sequences, FiniteSets, TLC

\* ------------------------------------------------------------------ bounds
NumUsers == 2
NumProcs == 2
MaxRequests == 3
MaxCollab == 1

Users == 1..NumUsers
Procs == 1..NumProcs
StoryIDs == 1..MaxRequests

\* ------------------------------------------------------- program constants
NilObjectID == 0
StatusOK == 200
StatusCreated == 201
StatusBadRequest == 400
StatusUnauthorized == 401
StatusNotFound == 404
StatusConflict == 409
StatusInternalServerError == 500

\* request bodies: title/genre/description triples and content strings
StoryTexts ==
    { [title |-> "T", genre |-> "G", description |-> "D"],
      [title |-> "T2", genre |-> "G2", description |-> "D2"] }
Contents == {"", "Hello"}
CollabSeqs == UNION { [1..n -> Users] : n \in 0..MaxCollab }

\* ------------------------------------------------------------------ helpers
Range(s) == { s[i] : i \in DOMAIN s }
Min(S) == CHOOSE x \in S : \A y \in S : x <= y
RemoveAt(s, i) == SubSeq(s, 1, i - 1) \o SubSeq(s, i + 1, Len(s))

VARIABLES
    storydetails,   \* collection storydetails: _id -> document
    storycontent,   \* collection storycontent: documents in natural order
    nextId,         \* the next ObjectID the driver generates
    req,            \* per request slot: the handler's position and locals
    nreq,           \* requests accepted so far
    cleanup,        \* the reconciler goroutine: position and locals
    serial,         \* scheduling of the run: TRUE when operations run one at a time
    stopCleanup,    \* main's channel stopCleanup: TRUE once it is closed
    done            \* main's channel done: TRUE once main has received from it
                    \* and returned (the process has exited)

vars == <<storydetails, storycontent, nextId, req, nreq, cleanup, serial, stopCleanup, done>>

\* ------------------------------------------------------------ data.StoryDetails
StoryDetails(owner, collabs, forked, text) ==
    [ owner_id      |-> owner,
      collaborators |-> collabs,
      forked_from   |-> forked,
      title         |-> text.title,
      genre         |-> text.genre,
      description   |-> text.description,
      updated_at    |-> 0 ]

StoryContent(sid, body) == [story_id |-> sid, content |-> body]

NoText == [title |-> "", genre |-> "", description |-> ""]

\* ------------------------------------------------------ collection primitives
\* FindOne on storycontent {story_id: sid}: index of the first match, 0 if none
FindContent(sc, sid) ==
    IF \E i \in DOMAIN sc : sc[i].story_id = sid
    THEN Min({ i \in DOMAIN sc : sc[i].story_id = sid })
    ELSE 0

\* DeleteOne on storycontent {story_id: sid}
DeleteOneContent(sc, sid) ==
    IF FindContent(sc, sid) = 0 THEN sc ELSE RemoveAt(sc, FindContent(sc, sid))

\* DeleteMany on storycontent {story_id: {$in: ids}}
DeleteManyContent(sc, ids) ==
    LET Keep(r) == r.story_id \notin ids IN SelectSeq(sc, Keep)

\* DeleteOne where DeleteMany is meant: only the first match is removed (a
\* faulty variant of RemoveDetails)
RemoveOneDetails(sd, ids) ==
    IF DOMAIN sd \cap ids = {} THEN sd
    ELSE [ i \in DOMAIN sd \ {CHOOSE x \in DOMAIN sd \cap ids :
                                   \A y \in DOMAIN sd \cap ids : x <= y} |-> sd[i] ]

\* a delete that cascades to the forks of the deleted stories (a faulty
\* variant of RemoveDetails)
RemoveWithForks(sd, ids) ==
    [ i \in { j \in DOMAIN sd \ ids : sd[j].forked_from \notin ids } |-> sd[i] ]

\* DeleteOne / DeleteMany on storydetails
RemoveDetails(sd, ids) == [ i \in DOMAIN sd \ ids |-> sd[i] ]

\* Find on storydetails {owner_id: {$in: owners}} projected to _id
StoriesOwnedBy(sd, owners) == { i \in DOMAIN sd : sd[i].owner_id \in owners }

\* InsertOne on storydetails
InsertDetails(sd, id, doc) == (id :> doc) @@ sd

\* ------------------------------------------------------------- request slots
Idle ==
    [ pc |-> "idle", op |-> "none", user |-> NilObjectID, story |-> NilObjectID,
      content |-> "", text |-> NoText, inserted |-> NilObjectID, ids |-> {},
      list |-> << >>, status |-> 0, err |-> FALSE ]

\* the handler has written its response: status, and the story_id it returns
\* (err: the response reports the error of a storage call)
Done(op, u, s, status, id) ==
    [Idle EXCEPT !.pc = "done", !.op = op, !.user = u, !.story = s,
                 !.status = status, !.inserted = id]

\* the handler in slot p writes its response
Respond(p, status, id) ==
    req' = [req EXCEPT ![p] = Done(req[p].op, req[p].user, req[p].story, status, id)]

InFlight == { p \in Procs : req[p].pc # "idle" }
CycleRunning == cleanup.pc \notin {"start", "wait", "exited"}

\* a written response is sent before any other step is taken (sending it
\* commutes with every other step)
NoneDone == \A p \in Procs : req[p].pc # "done"

\* the handler in slot p is about to make the storage call pc
At(p, pc) == req[p].pc = pc /\ NoneDone /\ ~done
\* the reconciler is about to make the storage call pc
CleanupAt(pc) == cleanup.pc = pc /\ NoneDone /\ ~done

\* a request is accepted into the lowest free slot
CanAccept(p) ==
    /\ At(p, "idle")
    /\ \A q \in Procs : q < p => req[q].pc # "idle"
    /\ serial => (InFlight = {} /\ ~CycleRunning)
    /\ ~stopCleanup
    /\ nreq < MaxRequests

Accept(p) ==
    /\ CanAccept(p)
    /\ nreq' = nreq + 1

\* the handler in slot p goes on to its service call
Proceed(p, op, pc, u, s, c) ==
    req' = [req EXCEPT ![p] =
               [Idle EXCEPT !.pc = pc, !.op = op, !.user = u, !.story = s,
                            !.content = c]]

\* the handler in slot p answers without calling the service
Answer(p, op, u, s, status, id) ==
    req' = [req EXCEPT ![p] = Done(op, u, s, status, id)]

\* the response has been sent
Return(p) ==
    /\ req[p].pc = "done"
    /\ req' = [req EXCEPT ![p] = Idle]
    /\ UNCHANGED <<storydetails, storycontent, nextId, nreq, cleanup, serial, stopCleanup, done>>

KnownIDs == 1..(nextId - 1)

\* the reconciler in its select, between two cycles
NoCycle ==
    [ pc |-> "wait", owners |-> {}, orphanedOwnerIDs |-> {}, orphanedStoryIDs |-> {} ]

\* the reconciler goroutine as main starts it: before its initial cycle
Startup == [NoCycle EXCEPT !.pc = "start"]

\* the reconciler goroutine has returned
Exited == [NoCycle EXCEPT !.pc = "exited"]

InitState ==
    /\ storydetails = << >>
    /\ storycontent = << >>
    /\ nextId = 1
    /\ req = [p \in Procs |-> Idle]
    /\ nreq = 0
    /\ cleanup = Startup
    /\ stopCleanup = FALSE
    /\ done = FALSE

Init == InitState /\ serial = FALSE
InitSeq == InitState /\ serial = TRUE

\* the database outlives the process.  The collections as an earlier run left
\* them after two edit-story requests of story 1 ran interleaved and both
\* inserted (the state StoredByRacingEdits, which Spec reaches)
StoredDetails ==
    1 :> [StoryDetails(1, << >>, NilObjectID,
                       [title |-> "T", genre |-> "G", description |-> "D"])
          EXCEPT !.updated_at = 2]
StoredContent == << StoryContent(1, "Hello"), StoryContent(1, "Hello") >>

StoredByRacingEdits ==
    /\ storydetails = StoredDetails
    /\ storycontent = StoredContent
    /\ nextId = 2
    /\ req = [p \in Procs |-> Idle]
    /\ ~CycleRunning

\* the collections as an earlier run left them when a cycle was aborted by a
\* storage failure after its bulk delete of the metadata of user 1, whose
\* account was deleted: the content of story 1 is left, and user 1 is still a
\* collaborator of story 2 (the state StoredByAbortedCycle, which SpecSeq
\* reaches)
AbortedOwners == {1}
AbortedStories == {1}
AbortedDetails ==
    2 :> StoryDetails(2, << 1 >>, NilObjectID,
                      [title |-> "T", genre |-> "G", description |-> "D"])
AbortedContent == << StoryContent(1, "Hello") >>

StoredByAbortedCycle ==
    /\ storydetails = AbortedDetails
    /\ storycontent = AbortedContent
    /\ nextId = 3
    /\ req = [p \in Procs |-> Idle]
    /\ ~CycleRunning

\* the collections as an earlier run left them after user 1 created story 1
\* and edited it and user 2 forked it (the state StoredWithFork, which SpecSeq
\* reaches)
ForkedDetails ==
    (1 :> [StoryDetails(1, << >>, NilObjectID,
                        [title |-> "T", genre |-> "G", description |-> "D"])
           EXCEPT !.updated_at = 1])
    @@ (2 :> StoryDetails(2, << >>, 1,
                          [title |-> "T", genre |-> "G", description |-> "D"]))
ForkedContent == << StoryContent(1, "Hello"), StoryContent(2, "Hello") >>

StoredWithFork ==
    /\ storydetails = ForkedDetails
    /\ storycontent = ForkedContent
    /\ nextId = 3
    /\ req = [p \in Procs |-> Idle]
    /\ ~CycleRunning

\* a process started on a stored database, its operations run one at a time
\* (the stored stories take the place of one request of the bound)
StartedOnStored ==
    /\ cleanup = Startup
    /\ nreq = 1
    /\ stopCleanup = FALSE
    /\ done = FALSE
    /\ serial = TRUE

InitStored == StartedOnStored /\ StoredByRacingEdits
InitAborted == StartedOnStored /\ StoredByAbortedCycle
InitForked == StartedOnStored /\ StoredWithFork

\* ----------------------------------------------------------- token validation
\* an Authorization header: absent, or a token with or without the prefix
\* "Bearer "; signed: the signature verifies under jwtSecret; subject: the
\* principal the claim "sub" parses to, NilObjectID when it is not a hex id
Header(bearer, signed, expired, id, subject) ==
    [ present |-> TRUE, bearer |-> bearer, signed |-> signed,
      expired |-> expired, id |-> id, subject |-> subject ]

NoHeader ==
    [ present |-> FALSE, bearer |-> FALSE, signed |-> FALSE,
      expired |-> FALSE, id |-> "", subject |-> NilObjectID ]

\* the access token the identity service issues to user u
AccessTokenOf(u) == Header(TRUE, TRUE, FALSE, "access", u)

\* the headers of the requests drawn: every user's access token with and
\* without the prefix, one token per failing check, and no header
Headers ==
    { AccessTokenOf(u) : u \in Users }
    \cup { [AccessTokenOf(u) EXCEPT !.bearer = FALSE] : u \in Users }
    \cup { [AccessTokenOf(1) EXCEPT !.signed = FALSE],
           [AccessTokenOf(1) EXCEPT !.expired = TRUE],
           [AccessTokenOf(1) EXCEPT !.id = "refresh"],
           [AccessTokenOf(1) EXCEPT !.subject = NilObjectID],
           NoHeader }

\* CleanupOrphanedStories: the token minted for the lookup of owner o, signed
\* with JWTSECRET: Subject o, expiry in 5 minutes, ID "access", sent as
\* "Bearer " + tokenString
MintedFor(o) == Header(TRUE, TRUE, FALSE, "access", o)

\* the checks without the one of the claim "jti" (a faulty variant of
\* ParseTokenFunc)
ParseAnyPurpose(h) ==
    IF ~h.signed \/ h.expired THEN [ok |-> FALSE, user_id |-> NilObjectID]
    ELSE IF h.subject = NilObjectID THEN [ok |-> FALSE, user_id |-> NilObjectID]
    ELSE [ok |-> TRUE, user_id |-> h.subject]

\* JWTMiddleware, ParseTokenFunc: the prefix is trimmed when it is there, then
\* ParseWithClaims (signature, expiry), claims.ID, ObjectIDFromHex(Subject)
ParseTokenFunc(h) ==
    IF ~h.signed \/ h.expired THEN [ok |-> FALSE, user_id |-> NilObjectID]
    ELSE IF h.id # "access" THEN [ok |-> FALSE, user_id |-> NilObjectID]
    ELSE IF h.subject = NilObjectID THEN [ok |-> FALSE, user_id |-> NilObjectID]
    ELSE [ok |-> TRUE, user_id |-> h.subject]

\* JWTMiddleware: TokenLookup header:Authorization hands the whole header to
\* ParseTokenFunc; a missing header goes to ErrorHandler as well
JWTMiddleware(h) ==
    IF ~h.present THEN [ok |-> FALSE, user_id |-> NilObjectID]
    ELSE ParseTokenFunc(h)

\* JWTMiddleware: c.Set("user_id", userID) before the handler is called
Principal(h) == IF JWTMiddleware(h).ok THEN {JWTMiddleware(h).user_id} ELSE {}

\* the routes registered with JWTMiddleware
ProtectedOps == {"create", "collaborations", "edit", "fork", "delete", "deleteAll"}

\* JWTMiddleware, ErrorHandler: 401, the handler is not called
JWTError(p, op, h) ==
    /\ Accept(p)
    /\ ~JWTMiddleware(h).ok
    /\ Answer(p, op, NilObjectID, NilObjectID, StatusUnauthorized, NilObjectID)
    /\ UNCHANGED <<storydetails, storycontent, nextId, cleanup, serial, stopCleanup, done>>

\* ----------------------------------------------------------- collaborations
\* Server.GetCollaborations: the stories listed for the principal; a read
GetCollaborations(p, u) ==
    /\ Accept(p)
    /\ Answer(p, "collaborations", u, NilObjectID, StatusOK, NilObjectID)
    /\ UNCHANGED <<storydetails, storycontent, nextId, cleanup, serial, stopCleanup, done>>

\* ------------------------------------------------------------- create-story
\* the JSON body of create-story: a json-tagged field of data.StoryDetails that
\* the body carries overrides the handler's value (NilObjectID: not carried).
\* The bodies drawn here never carry "id": every _id is generated by the driver.
PlainBody(text) ==
    [ owner_id |-> NilObjectID, collaborators |-> << >>,
      forked_from |-> NilObjectID, text |-> text ]

DefaultText == [title |-> "T", genre |-> "G", description |-> "D"]

CreateBodies ==
    { PlainBody(t) : t \in StoryTexts }
    \cup { [PlainBody(DefaultText) EXCEPT !.owner_id = v] : v \in Users }
    \cup { [PlainBody(DefaultText) EXCEPT !.collaborators = c] : c \in CollabSeqs }
    \cup { [PlainBody(DefaultText) EXCEPT !.forked_from = i] : i \in KnownIDs }

\* Server.CreateStory: OwnerID is set from the token, then Bind decodes the body
BindStory(u, body) ==
    StoryDetails(IF body.owner_id = NilObjectID THEN u ELSE body.owner_id,
                 body.collaborators, body.forked_from, body.text)

\* Server.CreateStory + service.CreateStory: one InsertOne
CreateStory(p, u, body) ==
    /\ Accept(p)
    /\ storydetails' = InsertDetails(storydetails, nextId, BindStory(u, body))
    /\ nextId' = nextId + 1
    /\ Answer(p, "create", u, NilObjectID, StatusCreated, nextId)
    /\ UNCHANGED <<storycontent, cleanup, serial, stopCleanup, done>>

\* --------------------------------------------------------------- edit-story
\* the policy without its collaborator clause (a faulty variant of IsAuthorized)
OwnerOnly(u, story) == u = story.owner_id

\* Server.EditStory: owner or member of the collaborator sequence
IsAuthorized(u, story) ==
    \/ u = story.owner_id
    \/ u \in Range(story.collaborators)

\* Server.EditStory up to the call of service.EditStoryContent
EditStory(p, u, s, c) ==
    /\ Accept(p)
    /\ IF s \notin DOMAIN storydetails
       THEN Answer(p, "edit", u, s, StatusNotFound, NilObjectID)
       ELSE IF ~IsAuthorized(u, storydetails[s])
       THEN Answer(p, "edit", u, s, StatusUnauthorized, NilObjectID)
       ELSE /\ Proceed(p, "edit", "editFind", u, s, c)
    /\ UNCHANGED <<storydetails, storycontent, nextId, cleanup, serial, stopCleanup, done>>

\* service.EditStoryContent: FindOne on storydetails
EditFindDetails(p) ==
    /\ At(p, "editFind")
    /\ IF req[p].story \in DOMAIN storydetails
       THEN /\ req' = [req EXCEPT ![p].pc = "editUpdate"]
       ELSE Respond(p, StatusInternalServerError, NilObjectID)
    /\ UNCHANGED <<storydetails, storycontent, nextId, nreq, cleanup, serial, stopCleanup, done>>

\* service.EditStoryContent: UpdateOne on storycontent, MatchedCount decides
EditUpdateContent(p) ==
    /\ At(p, "editUpdate")
    /\ LET i == FindContent(storycontent, req[p].story) IN
       IF i = 0
       THEN /\ req' = [req EXCEPT ![p].pc = "editInsert"]
            /\ UNCHANGED storycontent
       ELSE /\ req' = [req EXCEPT ![p].pc = "editTouch"]
            /\ storycontent' = [storycontent EXCEPT ![i].content = req[p].content]
    /\ UNCHANGED <<storydetails, nextId, nreq, cleanup, serial, stopCleanup, done>>

\* the insert without the request's body (a faulty variant of EditInsertContent)
EditInsertBlank(p) ==
    /\ At(p, "editInsert")
    /\ storycontent' = Append(storycontent, StoryContent(req[p].story, ""))
    /\ req' = [req EXCEPT ![p].pc = "editTouch"]
    /\ UNCHANGED <<storydetails, nextId, nreq, cleanup, serial, stopCleanup, done>>

\* service.EditStoryContent: InsertOne on storycontent after MatchedCount == 0
EditInsertContent(p) ==
    /\ At(p, "editInsert")
    /\ storycontent' = Append(storycontent, StoryContent(req[p].story, req[p].content))
    /\ req' = [req EXCEPT ![p].pc = "editTouch"]
    /\ UNCHANGED <<storydetails, nextId, nreq, cleanup, serial, stopCleanup, done>>

\* the update without $set: the document is replaced and loses its owner (a
\* faulty variant of TouchDetails)
ReplaceDetails(sd, sid) ==
    IF sid \in DOMAIN sd
    THEN [sd EXCEPT ![sid].updated_at = sd[sid].updated_at + 1,
                    ![sid].owner_id = NilObjectID]
    ELSE sd

\* UpdateOne on storydetails {$set: {updated_at: now}}
TouchDetails(sd, sid) ==
    IF sid \in DOMAIN sd
    THEN [sd EXCEPT ![sid].updated_at = sd[sid].updated_at + 1]
    ELSE sd

\* service.EditStoryContent: the timestamp touch, then the handler's 200
EditTouchDetails(p) ==
    /\ At(p, "editTouch")
    /\ storydetails' = TouchDetails(storydetails, req[p].story)
    /\ Respond(p, StatusOK, NilObjectID)
    /\ UNCHANGED <<storycontent, nextId, nreq, cleanup, serial, stopCleanup, done>>

\* --------------------------------------------------------------- fork-story
\* the check applied to the collaborator sequence instead of the owner (a
\* faulty variant of IsSelfFork)
IsCollaboratorFork(u, story) ==
    \E i \in DOMAIN story.collaborators : story.collaborators[i] = u

\* Server.ForkStory: a user cannot fork their own story
IsSelfFork(u, story) == u = story.owner_id

\* Server.ForkStory up to the call of service.ForkStory
ForkStory(p, u, s) ==
    /\ Accept(p)
    /\ IF s \notin DOMAIN storydetails
       THEN Answer(p, "fork", u, s, StatusNotFound, NilObjectID)
       ELSE IF IsSelfFork(u, storydetails[s])
       THEN Answer(p, "fork", u, s, StatusBadRequest, NilObjectID)
       ELSE /\ Proceed(p, "fork", "forkGet", u, s, "")
    /\ UNCHANGED <<storydetails, storycontent, nextId, cleanup, serial, stopCleanup, done>>

\* service.ForkStory: GetStoryDetails of the source
ForkGetDetails(p) ==
    /\ At(p, "forkGet")
    /\ IF req[p].story \in DOMAIN storydetails
       THEN /\ req' = [req EXCEPT ![p].pc = "forkFind",
                                  ![p].text =
                                      [ title |-> storydetails[req[p].story].title,
                                        genre |-> storydetails[req[p].story].genre,
                                        description |->
                                            storydetails[req[p].story].description ]]
       ELSE Respond(p, StatusInternalServerError, NilObjectID)
    /\ UNCHANGED <<storydetails, storycontent, nextId, nreq, cleanup, serial, stopCleanup, done>>

\* the filter without its owner_id clause bound to the forker (a faulty variant
\* of ExistingFork: it matches forks of s owned by the owner of s)
ForkBySourceOwner(sd, s, u) ==
    \E i \in DOMAIN sd :
        sd[i].forked_from = s /\ s \in DOMAIN sd /\ sd[i].owner_id = sd[s].owner_id

\* the filter without its forked_from clause (a faulty variant of ExistingFork:
\* it matches the forks of any source that u owns)
ForkOfAnySource(sd, s, u) ==
    \E i \in DOMAIN sd : sd[i].forked_from # NilObjectID /\ sd[i].owner_id = u

\* service.ForkStory: the filter {forked_from: storyID, owner_id: userID}
ExistingFork(sd, s, u) ==
    \E i \in DOMAIN sd : sd[i].forked_from = s /\ sd[i].owner_id = u

\* Server.ForkStory + service.ForkStory: the status of a fork-story request of
\* u for s that runs on sd alone and without a storage error
ForkStoryStatus(sd, u, s) ==
    IF s \notin DOMAIN sd THEN StatusNotFound
    ELSE IF IsSelfFork(u, sd[s]) THEN StatusBadRequest
    ELSE IF ExistingFork(sd, s, u) THEN StatusConflict
    ELSE StatusCreated

\* service.ForkStory: FindOne with the duplicate-fork filter
ForkFindExisting(p) ==
    /\ At(p, "forkFind")
    /\ IF ExistingFork(storydetails, req[p].story, req[p].user)
       THEN Respond(p, StatusConflict, NilObjectID)
       ELSE /\ req' = [req EXCEPT ![p].pc = "forkCreate"]
    /\ UNCHANGED <<storydetails, storycontent, nextId, nreq, cleanup, serial, stopCleanup, done>>

\* the document of the fork without its ForkedFrom (a faulty variant of
\* ForkedStory)
ForkedStoryNoSource(text, s, u) ==
    [ owner_id |-> u, collaborators |-> << >>, forked_from |-> NilObjectID,
      title |-> text.title, genre |-> text.genre, description |-> text.description,
      updated_at |-> 0 ]

\* service.ForkStory: the document of the fork
ForkedStory(text, s, u) == StoryDetails(u, << >>, s, text)

\* service.ForkStory: CreateStory(forkedStory)
ForkCreateStory(p) ==
    /\ At(p, "forkCreate")
    /\ storydetails' = InsertDetails(storydetails, nextId,
                                     ForkedStory(req[p].text, req[p].story, req[p].user))
    /\ nextId' = nextId + 1
    /\ req' = [req EXCEPT ![p].pc = "forkContentDetails", ![p].inserted = nextId]
    /\ UNCHANGED <<storycontent, nreq, cleanup, serial, stopCleanup, done>>

\* the fork's metadata is removed again when the source is not found (a faulty
\* variant of ForkGetContentDetails)
ForkGetContentOrUndo(p) ==
    /\ At(p, "forkContentDetails")
    /\ IF req[p].story \in DOMAIN storydetails
       THEN /\ req' = [req EXCEPT ![p].pc = "forkContent"]
            /\ UNCHANGED storydetails
       ELSE /\ Respond(p, StatusInternalServerError, NilObjectID)
            /\ storydetails' = RemoveDetails(storydetails, {req[p].inserted})
    /\ UNCHANGED <<storycontent, nextId, nreq, cleanup, serial, stopCleanup, done>>

\* service.GetStoryContent called by ForkStory: FindOne on storydetails
ForkGetContentDetails(p) ==
    /\ At(p, "forkContentDetails")
    /\ IF req[p].story \in DOMAIN storydetails
       THEN /\ req' = [req EXCEPT ![p].pc = "forkContent"]
       ELSE Respond(p, StatusInternalServerError, NilObjectID)
    /\ UNCHANGED <<storydetails, storycontent, nextId, nreq, cleanup, serial, stopCleanup, done>>

\* service.GetStoryContent: the body of the first content document, "" if none
ContentOf(sc, sid) ==
    IF FindContent(sc, sid) = 0 THEN "" ELSE sc[FindContent(sc, sid)].content

\* the function without its FindOne on storydetails (a faulty variant of
\* GetStoryContent)
GetContentUnchecked(sd, sc, id) == [found |-> TRUE, content |-> ContentOf(sc, id)]

\* service.GetStoryContent: NotFound without metadata, else the body ("" when
\* no content document exists)
GetStoryContent(sd, sc, id) ==
    IF id \notin DOMAIN sd
    THEN [found |-> FALSE, content |-> ""]
    ELSE [found |-> TRUE, content |-> ContentOf(sc, id)]

\* the test taken as true for every body (a faulty variant of HasBody)
AnyBody(content) == TRUE

\* service.ForkStory: storyContent.Content != ""
HasBody(content) == content # ""

\* service.GetStoryContent called by ForkStory: FindOne on storycontent;
\* an empty body ends the fork without a content document
ForkGetContent(p) ==
    /\ At(p, "forkContent")
    /\ IF ~HasBody(ContentOf(storycontent, req[p].story))
       THEN Respond(p, StatusCreated, req[p].inserted)
       ELSE /\ req' = [req EXCEPT ![p].pc = "forkInsert",
                                  ![p].content = ContentOf(storycontent, req[p].story)]
    /\ UNCHANGED <<storydetails, storycontent, nextId, nreq, cleanup, serial, stopCleanup, done>>

\* the content document of the source is given to the fork instead of a copy
\* (a faulty variant of ForkInsertContent)
ForkTakeContent(p) ==
    /\ At(p, "forkInsert")
    /\ storycontent' =
          IF FindContent(storycontent, req[p].story) = 0
          THEN Append(storycontent, StoryContent(req[p].inserted, req[p].content))
          ELSE [storycontent EXCEPT
                   ![FindContent(storycontent, req[p].story)].story_id = req[p].inserted]
    /\ Respond(p, StatusCreated, req[p].inserted)
    /\ UNCHANGED <<storydetails, nextId, nreq, cleanup, serial, stopCleanup, done>>

\* service.ForkStory: InsertOne on storycontent
ForkInsertContent(p) ==
    /\ At(p, "forkInsert")
    /\ storycontent' = Append(storycontent, StoryContent(req[p].inserted, req[p].content))
    /\ Respond(p, StatusCreated, req[p].inserted)
    /\ UNCHANGED <<storydetails, nextId, nreq, cleanup, serial, stopCleanup, done>>

\* ---------------------------------------------------------- get-story-content
\* Server.GetStoryContent + service.GetStoryContent: FindOne on storydetails;
\* any error of the service is answered 404
GetContent(p, s) ==
    /\ Accept(p)
    /\ IF ~GetStoryContent(storydetails, storycontent, s).found
       THEN Answer(p, "getContent", NilObjectID, s, StatusNotFound, NilObjectID)
       ELSE Proceed(p, "getContent", "getContentFind", NilObjectID, s, "")
    /\ UNCHANGED <<storydetails, storycontent, nextId, cleanup, serial, stopCleanup, done>>

\* service.GetStoryContent: FindOne on storycontent, ErrNoDocuments gives an
\* empty body; the handler answers 200 with the content
GetContentFind(p) ==
    /\ At(p, "getContentFind")
    /\ req' = [req EXCEPT ![p] =
                  [Done("getContent", NilObjectID, req[p].story, StatusOK, NilObjectID)
                   EXCEPT !.content = ContentOf(storycontent, req[p].story)]]
    /\ UNCHANGED <<storydetails, storycontent, nextId, nreq, cleanup, serial, stopCleanup, done>>

\* ------------------------------------------------------------- delete-story
\* the edit policy applied to deletion (a faulty variant of IsOwner)
OwnerOrCollaborator(u, story) ==
    \/ u = story.owner_id
    \/ \E i \in DOMAIN story.collaborators : story.collaborators[i] = u

\* Server.DeleteStory: strict ownership
IsOwner(u, story) == u = story.owner_id

\* a story without metadata is deleted by its content (a faulty variant of
\* DeleteStory)
DeleteStoryByContent(p, u, s) ==
    /\ Accept(p)
    /\ IF s \notin DOMAIN storydetails
       THEN Proceed(p, "delete", "deleteContent", u, s, "")
       ELSE IF ~IsOwner(u, storydetails[s])
       THEN Answer(p, "delete", u, s, StatusUnauthorized, NilObjectID)
       ELSE /\ Proceed(p, "delete", "deleteDetails", u, s, "")
    /\ UNCHANGED <<storydetails, storycontent, nextId, cleanup, serial, stopCleanup, done>>

\* Server.DeleteStory up to the call of service.DeleteStory
DeleteStory(p, u, s) ==
    /\ Accept(p)
    /\ IF s \notin DOMAIN storydetails
       THEN Answer(p, "delete", u, s, StatusNotFound, NilObjectID)
       ELSE IF ~IsOwner(u, storydetails[s])
       THEN Answer(p, "delete", u, s, StatusUnauthorized, NilObjectID)
       ELSE /\ Proceed(p, "delete", "deleteDetails", u, s, "")
    /\ UNCHANGED <<storydetails, storycontent, nextId, cleanup, serial, stopCleanup, done>>

\* DeletedCount is not looked at (a faulty variant of DeleteDetails)
DeleteDetailsAnyway(p) ==
    /\ At(p, "deleteDetails")
    /\ storydetails' = RemoveDetails(storydetails, {req[p].story})
    /\ req' = [req EXCEPT ![p].pc = "deleteContent"]
    /\ UNCHANGED <<storycontent, nextId, nreq, cleanup, serial, stopCleanup, done>>

\* service.DeleteStory: DeleteOne on storydetails, DeletedCount == 0 is an error
DeleteDetails(p) ==
    /\ At(p, "deleteDetails")
    /\ IF req[p].story \in DOMAIN storydetails
       THEN /\ storydetails' = RemoveDetails(storydetails, {req[p].story})
            /\ req' = [req EXCEPT ![p].pc = "deleteContent"]
       ELSE /\ Respond(p, StatusInternalServerError, NilObjectID)
            /\ UNCHANGED storydetails
    /\ UNCHANGED <<storycontent, nextId, nreq, cleanup, serial, stopCleanup, done>>

\* service.DeleteStory: DeleteOne on storycontent, DeletedCount == 0 is logged
DeleteContent(p) ==
    /\ At(p, "deleteContent")
    /\ storycontent' = DeleteOneContent(storycontent, req[p].story)
    /\ Respond(p, StatusOK, NilObjectID)
    /\ UNCHANGED <<storydetails, nextId, nreq, cleanup, serial, stopCleanup, done>>

\* -------------------------------------------------------- delete-all-stories
\* Server.DeleteAllStories + service.DeleteAllStoriesByUser: Find by owner_id
DeleteAllStories(p, u) ==
    /\ Accept(p)
    /\ IF StoriesOwnedBy(storydetails, {u}) = {}
       THEN Answer(p, "deleteAll", u, NilObjectID, StatusOK, NilObjectID)
       ELSE /\ req' = [req EXCEPT ![p] =
                          [Idle EXCEPT !.pc = "deleteAllDetails", !.op = "deleteAll",
                                       !.user = u,
                                       !.ids = StoriesOwnedBy(storydetails, {u})]]
    /\ UNCHANGED <<storydetails, storycontent, nextId, cleanup, serial, stopCleanup, done>>

\* service.DeleteAllStoriesByUser: DeleteMany on storydetails {owner_id: userID}
DeleteAllDetails(p) ==
    /\ At(p, "deleteAllDetails")
    /\ storydetails' = RemoveDetails(storydetails,
                                     StoriesOwnedBy(storydetails, {req[p].user}))
    /\ req' = [req EXCEPT ![p].pc = "deleteAllContents"]
    /\ UNCHANGED <<storycontent, nextId, nreq, cleanup, serial, stopCleanup, done>>

\* the last step without its DeleteMany (a faulty variant of DeleteAllContents)
DeleteAllKeepContents(p) ==
    /\ At(p, "deleteAllContents")
    /\ Respond(p, StatusOK, NilObjectID)
    /\ UNCHANGED <<storydetails, storycontent, nextId, nreq, cleanup, serial, stopCleanup, done>>

\* service.DeleteAllStoriesByUser: DeleteMany on storycontent {story_id: $in storyIDs}
DeleteAllContents(p) ==
    /\ At(p, "deleteAllContents")
    /\ storycontent' = DeleteManyContent(storycontent, req[p].ids)
    /\ Respond(p, StatusOK, NilObjectID)
    /\ UNCHANGED <<storydetails, nextId, nreq, cleanup, serial, stopCleanup, done>>

\* ---------------------------------------------------------- storage failures
\* the status a handler answers with when its first storage call returns an error
FirstCallErrorStatus(op) ==
    IF op \in {"edit", "fork", "delete", "getContent"} THEN StatusNotFound
    ELSE StatusInternalServerError

\* the status a handler answers with when its service function returns an error
ServiceErrorStatus(op) ==
    IF op = "getContent" THEN StatusNotFound ELSE StatusInternalServerError

\* the first storage call of a request returns an error: nothing is written
FirstCallFails(p, op, u, s) ==
    /\ Accept(p)
    /\ req' = [req EXCEPT ![p] =
                  [Done(op, IF op = "getContent" THEN NilObjectID ELSE u,
                        IF op \in {"edit", "fork", "delete", "getContent"} THEN s
                        ELSE NilObjectID,
                        FirstCallErrorStatus(op), NilObjectID)
                   EXCEPT !.err = TRUE]]
    /\ UNCHANGED <<storydetails, storycontent, nextId, cleanup, serial, stopCleanup, done>>

\* the timestamp of the story is set although the call is answered with an
\* error (a faulty variant of StorageFailure)
StorageFailureTouched(p) ==
    /\ req[p].pc \notin {"idle", "done"}
    /\ NoneDone /\ ~done
    /\ req' = [req EXCEPT ![p] =
                  [Done(req[p].op, req[p].user, req[p].story,
                        ServiceErrorStatus(req[p].op), NilObjectID)
                   EXCEPT !.err = TRUE]]
    /\ storydetails' = TouchDetails(storydetails, req[p].story)
    /\ UNCHANGED <<storycontent, nextId, nreq, cleanup, serial, stopCleanup, done>>

\* a later storage call of the service returns an error: the service function
\* returns the error and the handler answers 500
StorageFailure(p) ==
    /\ req[p].pc \notin {"idle", "done"}
    /\ NoneDone /\ ~done
    /\ req' = [req EXCEPT ![p] =
                  [Done(req[p].op, req[p].user, req[p].story,
                        ServiceErrorStatus(req[p].op), NilObjectID)
                   EXCEPT !.err = TRUE]]
    /\ UNCHANGED <<storydetails, storycontent, nextId, nreq, cleanup, serial, stopCleanup, done>>

\* ------------------------------------------------------------ the reconciler
\* gracefulShutdown: close(stopCleanup), then apiServer.Shutdown closes the
\* listener (Accept); the requests in flight go on
GracefulShutdown ==
    /\ ~stopCleanup
    /\ NoneDone
    /\ serial => (InFlight = {} /\ ~CycleRunning)
    /\ stopCleanup' = TRUE
    /\ UNCHANGED <<storydetails, storycontent, nextId, req, nreq, cleanup, serial, done>>

\* gracefulShutdown: apiServer.Shutdown returns (the requests in flight have
\* finished, or its five seconds are over), done <- true; main receives from
\* done and returns: the process exits with whatever the cleanup goroutine is
\* doing, for nothing waits for it
ShutdownComplete ==
    /\ stopCleanup
    /\ ~done
    /\ NoneDone
    /\ serial => (InFlight = {} /\ ~CycleRunning)
    /\ done' = TRUE
    /\ UNCHANGED <<storydetails, storycontent, nextId, req, nreq, cleanup, serial, stopCleanup>>

\* a cycle started whatever the goroutine is doing (a faulty variant of
\* CleanupBegin: a cycle spawned per tick)
CleanupBeginAnyTime ==
    /\ NoneDone /\ ~done
    /\ cleanup.pc # "exited"
    /\ serial => InFlight = {}
    /\ cleanup' = [NoCycle EXCEPT !.pc = "distinct"]
    /\ UNCHANGED <<storydetails, storycontent, nextId, req, nreq, serial, stopCleanup, done>>

\* main: the initial cycle, and in the loop's select a cycle per tick of the
\* ticker
CleanupBegin ==
    /\ CleanupAt("start") \/ CleanupAt("wait")
    /\ serial => InFlight = {}
    /\ cleanup' = [NoCycle EXCEPT !.pc = "distinct"]
    /\ UNCHANGED <<storydetails, storycontent, nextId, req, nreq, serial, stopCleanup, done>>

\* CleanupOrphanedStories: Distinct owner_id on storydetails
CleanupDistinct ==
    /\ CleanupAt("distinct")
    /\ LET owners == { storydetails[i].owner_id : i \in DOMAIN storydetails } IN
       cleanup' = IF owners = {} THEN NoCycle
                  ELSE [cleanup EXCEPT !.pc = "lookup", !.owners = owners]
    /\ UNCHANGED <<storydetails, storycontent, nextId, req, nreq, serial, stopCleanup, done>>

\* the identity service's answer to one lookup: a status code, or 0 for a
\* transport failure (an external service: any answer at any time)
LookupAnswers == {StatusOK, StatusNotFound, StatusInternalServerError, 0}

\* every answer other than 200 taken as "account not found" (a faulty variant
\* of IsOrphaned)
NotConfirmed(status) == status # StatusOK

\* CleanupOrphanedStories: only 404 marks the owner as orphaned
IsOrphaned(status) == status = StatusNotFound

\* the loop without the return on an empty orphan set (a faulty variant of
\* CleanupLookup)
CleanupLookupGoesOn(a) ==
    /\ CleanupAt("lookup")
    /\ LET o == Min(cleanup.owners)
           rest == cleanup.owners \ {o}
           orphaned == IF IsOrphaned(a) THEN cleanup.orphanedOwnerIDs \cup {o}
                       ELSE cleanup.orphanedOwnerIDs
       IN cleanup' = [cleanup EXCEPT !.owners = rest,
                                     !.orphanedOwnerIDs = orphaned,
                                     !.pc = IF rest = {} THEN "find" ELSE "lookup"]
    /\ UNCHANGED <<storydetails, storycontent, nextId, req, nreq, serial, stopCleanup, done>>

\* CleanupOrphanedStories: one owner lookup of the loop
CleanupLookup(a) ==
    /\ CleanupAt("lookup")
    /\ LET o == Min(cleanup.owners)
           rest == cleanup.owners \ {o}
           orphaned == IF IsOrphaned(a) THEN cleanup.orphanedOwnerIDs \cup {o}
                       ELSE cleanup.orphanedOwnerIDs
       IN cleanup' =
             IF rest = {} /\ orphaned = {}
             THEN NoCycle
             ELSE [cleanup EXCEPT !.owners = rest,
                                  !.orphanedOwnerIDs = orphaned,
                                  !.pc = IF rest = {} THEN "find" ELSE "lookup"]
    /\ UNCHANGED <<storydetails, storycontent, nextId, req, nreq, serial, stopCleanup, done>>

\* CleanupOrphanedStories: Find the _id of the orphaned owners' stories
CleanupFind ==
    /\ CleanupAt("find")
    /\ cleanup' = [cleanup EXCEPT !.pc = "deleteDetails",
                                  !.orphanedStoryIDs =
                                      StoriesOwnedBy(storydetails, cleanup.orphanedOwnerIDs)]
    /\ UNCHANGED <<storydetails, storycontent, nextId, req, nreq, serial, stopCleanup, done>>

\* CleanupOrphanedStories: DeleteMany on storydetails {owner_id: $in orphaned}
CleanupDeleteDetails ==
    /\ CleanupAt("deleteDetails")
    /\ storydetails' = RemoveDetails(storydetails,
                           StoriesOwnedBy(storydetails, cleanup.orphanedOwnerIDs))
    /\ cleanup' = [cleanup EXCEPT !.pc = "deleteContents"]
    /\ UNCHANGED <<storycontent, nextId, req, nreq, serial, stopCleanup, done>>

\* CleanupOrphanedStories: DeleteMany on storycontent {story_id: $in orphanedStoryIDs}
CleanupDeleteContents ==
    /\ CleanupAt("deleteContents")
    /\ storycontent' = DeleteManyContent(storycontent, cleanup.orphanedStoryIDs)
    /\ cleanup' = [cleanup EXCEPT !.pc = "pull"]
    /\ UNCHANGED <<storydetails, nextId, req, nreq, serial, stopCleanup, done>>

\* $pull with $nin in place of $in (a faulty variant of Pull)
PullOthers(collabs, orphaned) ==
    LET Keep(c) == c \in orphaned IN SelectSeq(collabs, Keep)

\* $pull {collaborators: $in orphaned}: every occurrence is removed
Pull(collabs, orphaned) ==
    LET Keep(c) == c \notin orphaned IN SelectSeq(collabs, Keep)

\* CleanupOrphanedStories: UpdateMany on storydetails with $pull
CleanupPull ==
    /\ CleanupAt("pull")
    /\ storydetails' =
          [ i \in DOMAIN storydetails |->
              [storydetails[i] EXCEPT
                  !.collaborators = Pull(@, cleanup.orphanedOwnerIDs)] ]
    /\ cleanup' = NoCycle
    /\ UNCHANGED <<storycontent, nextId, req, nreq, serial, stopCleanup, done>>

\* a storage call of the cycle returns an error: the cycle returns it and
\* main logs it
CleanupFailure ==
    /\ cleanup.pc \in {"distinct", "find", "deleteDetails", "deleteContents", "pull"}
    /\ NoneDone /\ ~done
    /\ cleanup' = NoCycle
    /\ UNCHANGED <<storydetails, storycontent, nextId, req, nreq, serial, stopCleanup, done>>

\* CleanupOrphanedStories run to its end without storage failure on the
\* collections sd, sc, where answer[o] is the identity service's answer for
\* owner o: the owners marked, then DeleteMany, DeleteMany, UpdateMany $pull
OrphanedOwners(sd, answer) ==
    { o \in { sd[i].owner_id : i \in DOMAIN sd } : IsOrphaned(answer[o]) }

CompleteCycle(sd, sc, answer) ==
    LET orphaned == OrphanedOwners(sd, answer)
        ids == StoriesOwnedBy(sd, orphaned)
        kept == RemoveDetails(sd, StoriesOwnedBy(sd, orphaned))
    IN IF orphaned = {}
       THEN [sd |-> sd, sc |-> sc]
       ELSE [sd |-> [ i \in DOMAIN kept |->
                        [kept[i] EXCEPT !.collaborators = Pull(@, orphaned)] ],
             sc |-> DeleteManyContent(sc, ids)]

\* ------------------------------------------------------------ specification
\* the stop signal observed at any position of the goroutine (a faulty variant
\* of CleanupStop)
CleanupStopAnyTime ==
    /\ NoneDone /\ ~done
    /\ cleanup.pc # "exited"
    /\ stopCleanup
    /\ cleanup' = Exited
    /\ UNCHANGED <<storydetails, storycontent, nextId, req, nreq, serial, stopCleanup, done>>

\* main: the loop's select receives from stopCleanup and the goroutine returns
CleanupStop ==
    /\ CleanupAt("wait")
    /\ stopCleanup
    /\ cleanup' = Exited
    /\ UNCHANGED <<storydetails, storycontent, nextId, req, nreq, serial, stopCleanup, done>>

\* ------------------------------------------------------------- list routes
\* Go's int on a 64-bit platform: eight bytes, least significant first, in
\* two's complement; the arithmetic wraps around
IntBytes == 8
Byte == 256

\* the int of a small number n (three bytes and the sign extension)
GoInt(n) ==
    [ i \in 1..IntBytes |->
        IF i <= 3 THEN (n \div Byte^(i - 1)) % Byte
        ELSE IF n < 0 THEN Byte - 1 ELSE 0 ]

MaxInt == [ i \in 1..IntBytes |-> IF i = IntBytes THEN Byte \div 2 - 1 ELSE Byte - 1 ]
MinInt == [ i \in 1..IntBytes |-> IF i = IntBytes THEN Byte \div 2 ELSE 0 ]

\* 2^62 - 1
HalfMaxInt ==
    [ i \in 1..IntBytes |-> IF i = IntBytes THEN Byte \div 4 - 1 ELSE Byte - 1 ]

IsNegative(a) == a[Len(a)] >= Byte \div 2
IsZero(a) == \A i \in DOMAIN a : a[i] = 0

\* a + b on Len(a) bytes, from byte i on with the carry of the bytes below
RECURSIVE AddBytes(_, _, _, _)
AddBytes(a, b, i, carry) ==
    IF i > Len(a) THEN << >>
    ELSE <<(a[i] + b[i] + carry) % Byte>>
         \o AddBytes(a, b, i + 1, (a[i] + b[i] + carry) \div Byte)

Add(a, b) == AddBytes(a, b, 1, 0)

\* the partial products that make byte k of a * b
RECURSIVE Column(_, _, _, _)
Column(a, b, k, i) ==
    IF i > k THEN 0 ELSE a[i] * b[k + 1 - i] + Column(a, b, k, i + 1)

\* a * b on Len(a) bytes, from byte k on with the carry of the bytes below
RECURSIVE MulBytes(_, _, _, _)
MulBytes(a, b, k, carry) ==
    IF k > Len(a) THEN << >>
    ELSE <<(Column(a, b, k, 1) + carry) % Byte>>
         \o MulBytes(a, b, k + 1, (Column(a, b, k, 1) + carry) \div Byte)

Mul(a, b) == MulBytes(a, b, 1, 0)

\* skip := (page - 1) * limit
Skip(page, limit) == Mul(Add(page, GoInt(-1)), limit)

\* the service functions that list stories
ListFunctions ==
    {"GetStories", "GetStoriesByFilters", "GetStoriesByUser", "GetCollaborations"}

\* the page and limit of the request bodies drawn
Pages == { GoInt(n) : n \in -1..3 } \cup { Add(HalfMaxInt, GoInt(2)), MaxInt, MinInt }
Limits == { GoInt(n) : n \in 0..3 } \cup { MaxInt }

\* the handler of a list route calls its service function, which computes the
\* offset it hands to SetSkip
ListStories(p, f, page, limit) ==
    /\ Accept(p)
    /\ req' = [req EXCEPT ![p] =
                  [Done(f, NilObjectID, NilObjectID, StatusOK, NilObjectID)
                   EXCEPT !.list = [ page |-> page, limit |-> limit,
                                     skip |-> Skip(page, limit) ]]]
    /\ UNCHANGED <<storydetails, storycontent, nextId, cleanup, serial, stopCleanup, done>>

\* a request of a protected route with the header h: the handler called with
\* the principal of the token, or the middleware's 401
HandlerCalled(p, h, u) ==
    \/ \E body \in CreateBodies : CreateStory(p, u, body)
    \/ \E s \in KnownIDs, c \in Contents : EditStory(p, u, s, c)
    \/ \E s \in KnownIDs : ForkStory(p, u, s)
    \/ \E s \in KnownIDs : DeleteStory(p, u, s)
    \/ DeleteAllStories(p, u)
    \/ GetCollaborations(p, u)
    \/ \E op \in ProtectedOps, s \in KnownIDs : FirstCallFails(p, op, u, s)

ProtectedRequest(p, h) ==
    \/ \E u \in Principal(h) : HandlerCalled(p, h, u)
    \/ \E op \in ProtectedOps : JWTError(p, op, h)

Next ==
    \/ \E p \in Procs : CanAccept(p) /\
          \E h \in Headers : \E u \in Principal(h), body \in CreateBodies :
          CreateStory(p, u, body)
    \/ \E p \in Procs : CanAccept(p) /\
          \E h \in Headers : \E u \in Principal(h), s \in KnownIDs,
          c \in Contents : EditStory(p, u, s, c)
    \/ \E p \in Procs : EditFindDetails(p)
    \/ \E p \in Procs : EditUpdateContent(p)
    \/ \E p \in Procs : EditInsertContent(p)
    \/ \E p \in Procs : EditTouchDetails(p)
    \/ \E p \in Procs : CanAccept(p) /\
          \E h \in Headers : \E u \in Principal(h), s \in KnownIDs :
          ForkStory(p, u, s)
    \/ \E p \in Procs : ForkGetDetails(p)
    \/ \E p \in Procs : ForkFindExisting(p)
    \/ \E p \in Procs : ForkCreateStory(p)
    \/ \E p \in Procs : ForkGetContentDetails(p)
    \/ \E p \in Procs : ForkGetContent(p)
    \/ \E p \in Procs : ForkInsertContent(p)
    \/ \E p \in Procs : CanAccept(p) /\
          \E s \in KnownIDs : GetContent(p, s)
    \/ \E p \in Procs : GetContentFind(p)
    \/ \E p \in Procs : CanAccept(p) /\
          \E h \in Headers : \E u \in Principal(h), s \in KnownIDs :
          DeleteStory(p, u, s)
    \/ \E p \in Procs : DeleteDetails(p)
    \/ \E p \in Procs : DeleteContent(p)
    \/ \E p \in Procs : CanAccept(p) /\
          \E h \in Headers : \E u \in Principal(h) : DeleteAllStories(p, u)
    \/ \E p \in Procs : CanAccept(p) /\
          \E h \in Headers : \E u \in Principal(h) : GetCollaborations(p, u)
    \/ \E p \in Procs : DeleteAllDetails(p)
    \/ \E p \in Procs : DeleteAllContents(p)
    \/ \E p \in Procs : CanAccept(p) /\
          \E op \in ProtectedOps, h \in Headers : \E u \in Principal(h),
          s \in KnownIDs : FirstCallFails(p, op, u, s)
    \/ \E p \in Procs : CanAccept(p) /\
          \E s \in KnownIDs :
          FirstCallFails(p, "getContent", NilObjectID, s)
    \/ \E p \in Procs : CanAccept(p) /\
          \E op \in ProtectedOps, h \in Headers : JWTError(p, op, h)
    \/ \E p \in Procs : StorageFailure(p)
    \/ \E p \in Procs : Return(p)
    \/ CleanupBegin
    \/ CleanupDistinct
    \/ \E a \in LookupAnswers : CleanupLookup(a)
    \/ CleanupFind
    \/ CleanupDeleteDetails
    \/ CleanupDeleteContents
    \/ CleanupPull
    \/ CleanupFailure
    \/ CleanupStop
    \/ GracefulShutdown
    \/ ShutdownComplete

Spec == Init /\ [][Next]_vars
SpecSeq == InitSeq /\ [][Next]_vars
SpecStored == InitStored /\ [][Next]_vars
SpecAborted == InitAborted /\ [][Next]_vars
SpecForked == InitForked /\ [][Next]_vars

\* the list routes alone, on the empty database
NextList ==
    \/ \E p \in Procs : CanAccept(p) /\
          \E f \in ListFunctions, page \in Pages, limit \in Limits :
          ListStories(p, f, page, limit)
    \/ \E p \in Procs : Return(p)

SpecList == InitSeq /\ [][NextList]_vars

\* the goroutine's initial cycle; a step of a running cycle
CleanupInitial == CleanupAt("start") /\ CleanupBegin

CycleStep ==
    \/ CleanupDistinct
    \/ \E a \in LookupAnswers : CleanupLookup(a)
    \/ CleanupFind
    \/ CleanupDeleteDetails
    \/ CleanupDeleteContents
    \/ CleanupPull
    \/ CleanupFailure

\* scheduling: a written response is sent; the goroutine is scheduled and its
\* calls return (every call has a deadline); the select chooses at random
\* among its ready cases, so a closed stopCleanup is not passed over forever
Fairness ==
    /\ \A p \in Procs : WF_vars(Return(p))
    /\ WF_vars(CleanupInitial)
    /\ WF_vars(CycleStep)
    /\ SF_vars(CleanupStop)

SpecLive == Init /\ [][Next]_vars /\ Fairness

\* ------------------------------------------------------------------ properties
\* no request is being handled and no reconciliation cycle is running
Quiescent == InFlight = {} /\ ~CycleRunning

\* the storydetails documents recorded as forks of s owned by f
ForksOf(sd, s, f) ==
    { i \in DOMAIN sd : sd[i].forked_from = s /\ sd[i].owner_id = f }

\* the storycontent documents of story s
ContentsOf(sc, s) == { i \in DOMAIN sc : sc[i].story_id = s }

\* C1: in every quiescent state (no request in flight, no cycle running) each
\* content document references a story whose metadata document exists;
\* deleting a story never leaves its content behind without its metadata.
C1_ContentHasMetadata ==
    Quiescent =>
        \A i \in DOMAIN storycontent :
            storycontent[i].story_id \in DOMAIN storydetails

\* C2: there is at most one metadata document per (forked_from, owner) pair,
\* also when two fork-story requests of the same forker for the same source
\* are interleaved.
C2_OneForkPerPair ==
    \A p, q \in Procs :
        ( /\ p # q
          /\ req[p].op = "fork" /\ req[q].op = "fork"
          /\ req[p].user = req[q].user /\ req[p].story = req[q].story )
        => Cardinality(ForksOf(storydetails, req[p].story, req[p].user)) <= 1

\* C3: there is at most one content document per story, also when two
\* edit-story requests for a story without content are interleaved.
C3_OneContentPerStory ==
    \A s \in StoryIDs : Cardinality(ContentsOf(storycontent, s)) <= 1

\* a handler's response that reports no storage error
Answered(p, op) == req[p].pc = "done" /\ req[p].op = op /\ ~req[p].err

\* F holds a fork of S other than the one the request in slot p inserted
HoldsFork(p) ==
    ForksOf(storydetails, req[p].story, req[p].user) \ {req[p].inserted} # {}

\* C4 (as stated): with operations run one at a time, a second fork of S by F
\* while F's first fork of S still exists is answered 409 and inserts nothing.
C4_SecondForkConflict ==
    \A p \in Procs :
        ( /\ Answered(p, "fork")
          /\ HoldsFork(p)
          /\ req[p].story \in DOMAIN storydetails
                => ~IsSelfFork(req[p].user, storydetails[req[p].story]) )
        => req[p].status = StatusConflict /\ req[p].inserted = NilObjectID

\* C4 (amended), state part: such a second fork is answered 409 while S still
\* exists and 404 once S has been deleted; it never returns a new story.
C4_SecondForkAnswer ==
    \A p \in Procs :
        ( /\ Answered(p, "fork")
          /\ HoldsFork(p)
          /\ req[p].story \in DOMAIN storydetails
                => ~IsSelfFork(req[p].user, storydetails[req[p].story]) )
        => /\ req[p].inserted = NilObjectID
           /\ req[p].status = IF req[p].story \in DOMAIN storydetails
                              THEN StatusConflict ELSE StatusNotFound

\* C4 (amended), step part: the step that answers 409 or 404 to a fork request
\* writes nothing, and the request has inserted nothing before it.
C4_RejectedForkWritesNothing ==
    \A p \in Procs :
        ( /\ req[p].pc # "done"
          /\ req'[p].pc = "done" /\ req'[p].op = "fork" /\ ~req'[p].err
          /\ req'[p].status \in {StatusConflict, StatusNotFound} )
        => /\ UNCHANGED <<storydetails, storycontent>>
           /\ req[p].inserted = NilObjectID

\* C4 (amended): with operations run one at a time, a second fork of S by F
\* while F's first fork of S still exists is answered 409 if S still exists and
\* 404 if S has been deleted, and in both cases adds no metadata document and
\* no content document.
C4_SecondForkRejected ==
    []C4_SecondForkAnswer /\ [][C4_RejectedForkWritesNothing]_vars

C4_Witness ==
    \E p \in Procs :
        /\ serial
        /\ Answered(p, "fork") /\ req[p].status = StatusConflict
        /\ HoldsFork(p)

\* C5: an edit-story request of principal u on story s is permitted exactly
\* when u is the owner of s or occurs in its collaborator sequence; any other
\* principal is answered 401 and neither collection changes.
C5_EditPermittedIff ==
    \A p \in Procs, u \in Users, s \in StoryIDs, c \in Contents :
        (EditStory(p, u, s, c) /\ s \in DOMAIN storydetails) =>
            IF \/ u = storydetails[s].owner_id
               \/ \E i \in DOMAIN storydetails[s].collaborators :
                      storydetails[s].collaborators[i] = u
            THEN /\ req'[p].pc = "editFind"
                 /\ req'[p].user = u /\ req'[p].story = s /\ req'[p].content = c
            ELSE /\ req'[p] = Done("edit", u, s, StatusUnauthorized, NilObjectID)
                 /\ UNCHANGED <<storydetails, storycontent>>

C5_EditAuthorization == [][C5_EditPermittedIff]_vars

C5_Witness ==
    \E p \in Procs :
        /\ Answered(p, "edit") /\ req[p].status = StatusUnauthorized
        /\ req[p].story \in DOMAIN storydetails
        /\ req[p].user # storydetails[req[p].story].owner_id
        /\ req[p].user \notin Range(storydetails[req[p].story].collaborators)

\* the content documents of story s, in natural order
ContentDocs(sc, s) == LET Of(r) == r.story_id = s IN SelectSeq(sc, Of)

\* a step of the request in slot p; a step of the reconciler
RequestStep(p) == req'[p] # req[p]
CleanupStep == cleanup' # cleanup

\* C6, the handlers' checks: a delete-story request of a principal other than
\* the owner (a collaborator included) is answered 401 and writes nothing, and
\* delete-all-stories selects only stories owned by the requester.
C6_DeletionChecks ==
    /\ \A p \in Procs, u \in Users, s \in StoryIDs :
           ( /\ DeleteStory(p, u, s)
             /\ s \in DOMAIN storydetails
             /\ u # storydetails[s].owner_id )
           => /\ req'[p] = Done("delete", u, s, StatusUnauthorized, NilObjectID)
              /\ UNCHANGED <<storydetails, storycontent>>
    /\ \A p \in Procs, u \in Users :
           DeleteAllStories(p, u)
           => /\ UNCHANGED <<storydetails, storycontent>>
              /\ \A i \in req'[p].ids :
                     i \in DOMAIN storydetails /\ storydetails[i].owner_id = u

\* C6, the deletions: a metadata document removed by a step of a request is
\* removed by a delete-story or delete-all-stories request of its owner, and
\* the content documents such a step removes belong to no story of another
\* owner.
C6_DeletionsByOwner ==
    \A p \in Procs :
        (RequestStep(p) /\ ~CleanupStep)
        => /\ \A i \in DOMAIN storydetails \ DOMAIN storydetails' :
                  /\ req[p].op \in {"delete", "deleteAll"}
                  /\ req[p].user = storydetails[i].owner_id
           /\ \A s \in StoryIDs :
                  Len(ContentDocs(storycontent', s)) < Len(ContentDocs(storycontent, s))
                  => /\ req[p].op \in {"delete", "deleteAll"}
                     /\ s \in DOMAIN storydetails'
                            => storydetails'[s].owner_id = req[p].user

C7_OnlyNotFoundMarks ==
    /\ \A a \in LookupAnswers :
           CleanupLookup(a)
           => cleanup'.orphanedOwnerIDs =
                  IF a = StatusNotFound
                  THEN cleanup.orphanedOwnerIDs \cup {Min(cleanup.owners)}
                  ELSE cleanup.orphanedOwnerIDs
    /\ ~(cleanup'.orphanedOwnerIDs \subseteq cleanup.orphanedOwnerIDs)
           => CleanupLookup(StatusNotFound)

\* C7, the deletions: a step of the cycle keeps every story whose owner is not
\* marked orphaned in this cycle, and keeps its content documents.
C7_OthersKept ==
    CleanupStep =>
        \A i \in DOMAIN storydetails :
            storydetails[i].owner_id \notin cleanup.orphanedOwnerIDs
            => /\ i \in DOMAIN storydetails'
               /\ storydetails'[i].owner_id = storydetails[i].owner_id
               /\ ContentDocs(storycontent', i) = ContentDocs(storycontent, i)

C8_CycleSteps ==
    /\ CleanupDeleteDetails
           => /\ DOMAIN storydetails' =
                     { i \in DOMAIN storydetails :
                           storydetails[i].owner_id \notin cleanup.orphanedOwnerIDs }
              /\ \A i \in DOMAIN storydetails' : storydetails'[i] = storydetails[i]
    /\ CleanupDeleteContents
           => \A k \in DOMAIN storycontent' :
                  storycontent'[k].story_id \notin cleanup.orphanedStoryIDs
    /\ CleanupPull
           => /\ DOMAIN storydetails' = DOMAIN storydetails
              /\ \A i \in DOMAIN storydetails' :
                     /\ storydetails'[i].owner_id \notin cleanup.orphanedOwnerIDs
                     /\ i \notin cleanup.orphanedStoryIDs
                     /\ Range(storydetails'[i].collaborators) =
                            Range(storydetails[i].collaborators)
                                \ cleanup.orphanedOwnerIDs
                     /\ [storydetails'[i] EXCEPT !.collaborators = << >>] =
                            [storydetails[i] EXCEPT !.collaborators = << >>]
              /\ \A k \in DOMAIN storycontent' :
                     storycontent'[k].story_id \notin cleanup.orphanedStoryIDs

\* C8: after a reconciliation cycle without storage failure in which the lookup
\* of owner A returned 404, no metadata document owned by A and no content
\* document of A's stories remains, A occurs in no collaborator sequence, and
\* every story that merely listed A as collaborator still exists.
C8_OrphanRemoved == [][C8_CycleSteps]_vars

C8_Witness ==
    /\ serial
    /\ cleanup.pc = "pull"
    /\ cleanup.orphanedStoryIDs # {}
    /\ \E a \in cleanup.orphanedOwnerIDs, i \in DOMAIN storydetails :
           a \in Range(storydetails[i].collaborators)

\* C9, per step: a fork-story request of the owner of the source is answered
\* 400 and writes nothing, and the step that inserts a fork never inserts one
\* owned by the owner of its source.
C9_SelfForkSteps ==
    /\ \A p \in Procs, u \in Users, s \in StoryIDs :
           ( /\ ForkStory(p, u, s)
             /\ s \in DOMAIN storydetails
             /\ u = storydetails[s].owner_id )
           => /\ req'[p] = Done("fork", u, s, StatusBadRequest, NilObjectID)
              /\ UNCHANGED <<storydetails, storycontent, nextId>>
    /\ \A p \in Procs :
           (ForkCreateStory(p) /\ req[p].story \in DOMAIN storydetails)
           => storydetails[req[p].story].owner_id # req[p].user

C10_ForkIsCopy ==
    \A p \in Procs :
        (Answered(p, "fork") /\ req[p].status = StatusCreated)
        => LET n == req[p].inserted
               s == req[p].story
           IN /\ n \in DOMAIN storydetails /\ s \in DOMAIN storydetails /\ n # s
              /\ storydetails[n].title = storydetails[s].title
              /\ storydetails[n].genre = storydetails[s].genre
              /\ storydetails[n].description = storydetails[s].description
              /\ storydetails[n].owner_id = req[p].user
              /\ storydetails[n].owner_id # storydetails[s].owner_id
              /\ storydetails[n].collaborators = << >>
              /\ storydetails[n].forked_from = s
              /\ ContentOf(storycontent, s) # ""
                     => GetStoryContent(storydetails, storycontent, n) =
                            [found |-> TRUE, content |-> ContentOf(storycontent, s)]

\* C10, the steps: a fork request inserts one metadata document, at one step,
\* and changes no other metadata document.
C10_OneInsert ==
    \A p \in Procs :
        (req[p].op = "fork" /\ RequestStep(p))
        => \/ storydetails' = storydetails
           \/ /\ req[p].pc = "forkCreate" /\ req[p].inserted = NilObjectID
              /\ req'[p].inserted \notin DOMAIN storydetails
              /\ DOMAIN storydetails' = DOMAIN storydetails \cup {req'[p].inserted}
              /\ \A i \in DOMAIN storydetails : storydetails'[i] = storydetails[i]

\* C10: a successful fork of S by B (not the owner of S, no fork of S by B yet)
\* creates exactly one metadata document, with title, genre and description of
\* S, owner B, no collaborators and forked_from = S; when the body of S is not
\* empty, GetStoryContent of the new story returns the same body.
C10_SuccessfulFork == []C10_ForkIsCopy /\ [][C10_OneInsert]_vars

C10_Witness ==
    \E p \in Procs :
        /\ serial
        /\ Answered(p, "fork") /\ req[p].status = StatusCreated
        /\ ContentOf(storycontent, req[p].story) = "Hello"
        /\ ContentOf(storycontent, req[p].inserted) = "Hello"

\* C11, the response: with operations run one at a time, the story a fork
\* request answers 201 with has at most one content document, and none when
\* the source has no content document or an empty body; GetStoryContent of the
\* fork then returns an empty body.
C11_ForkContentState ==
    \A p \in Procs :
        (Answered(p, "fork") /\ req[p].status = StatusCreated)
        => LET n == req[p].inserted
               s == req[p].story
           IN /\ Cardinality(ContentsOf(storycontent, n)) <= 1
              /\ ContentOf(storycontent, s) = ""
                     => /\ ContentsOf(storycontent, n) = {}
                        /\ GetStoryContent(storydetails, storycontent, n) =
                               [found |-> TRUE, content |-> ""]

\* C11, the steps: a fork request writes to storycontent at one step only,
\* where it appends one document, of its new story, with a non-empty body.
C11_ForkContentSteps ==
    \A p \in Procs :
        (req[p].op = "fork" /\ RequestStep(p))
        => \/ storycontent' = storycontent
           \/ /\ req[p].pc = "forkInsert"
              /\ Len(storycontent') = Len(storycontent) + 1
              /\ SubSeq(storycontent', 1, Len(storycontent)) = storycontent
              /\ storycontent'[Len(storycontent')].story_id = req[p].inserted
              /\ storycontent'[Len(storycontent')].content # ""

\* C11: a fork creates at most one content document, and none when the source
\* has no content document or an empty body; GetStoryContent of the fork then
\* returns an empty body.
C11_ForkContent == []C11_ForkContentState /\ [][C11_ForkContentSteps]_vars

C11_Witness ==
    \E p \in Procs :
        /\ serial
        /\ Answered(p, "fork") /\ req[p].status = StatusCreated
        /\ ContentsOf(storycontent, req[p].story) # {}
        /\ ContentOf(storycontent, req[p].story) = ""
        /\ ContentsOf(storycontent, req[p].inserted) = {}

\* C12: with operations run one at a time, get-story-content of an id without
\* metadata document is answered NotFound (404), and of a story with metadata
\* but without content document is answered 200 with an empty body.
C12_GetContentAnswer ==
    \A p \in Procs :
        Answered(p, "getContent")
        => IF req[p].story \notin DOMAIN storydetails
           THEN req[p].status = StatusNotFound
           ELSE /\ req[p].status = StatusOK
                /\ ContentsOf(storycontent, req[p].story) = {} => req[p].content = ""
                /\ \A i \in ContentsOf(storycontent, req[p].story) :
                       req[p].content = storycontent[i].content

C12_Witness ==
    \E p \in Procs :
        /\ serial
        /\ Answered(p, "getContent") /\ req[p].status = StatusOK
        /\ req[p].story \in DOMAIN storydetails
        /\ ContentsOf(storycontent, req[p].story) = {}
        /\ req[p].content = ""

\* C13: once delete-story of S is answered 200, no metadata document of S and
\* no content document referencing S remains, whatever operations preceded the
\* request (a story without content document included).
C13_DeleteRemovesAll ==
    \A p \in Procs :
        (Answered(p, "delete") /\ req[p].status = StatusOK)
        => /\ req[p].story \notin DOMAIN storydetails
           /\ ContentsOf(storycontent, req[p].story) = {}

\* C14: a create request of principal A answered 201 has stored one new
\* metadata document whose owner is A and whose collaborator sequence is
\* empty, for every request body, and no content document for the new story.
C14_CreateStoresOwned ==
    \A p \in Procs :
        (Answered(p, "create") /\ req[p].status = StatusCreated)
        => /\ req[p].inserted \in DOMAIN storydetails
           /\ storydetails[req[p].inserted].owner_id = req[p].user
           /\ storydetails[req[p].inserted].collaborators = << >>
           /\ ContentsOf(storycontent, req[p].inserted) = {}

\* C15: with operations run one at a time, an edit-story request (S, b)
\* updates the existing content document of S in place, inserts exactly one
\* when S has none, and once it is answered 200 get-story-content of S
\* returns b.
C15_EditSteps ==
    \A p \in Procs :
        LET s == req[p].story
            b == req[p].content
        IN
        /\ (req[p].pc = "editUpdate" /\ RequestStep(p) /\ ~req'[p].err)
           => IF ContentsOf(storycontent, s) = {}
              THEN storycontent' = storycontent /\ req'[p].pc = "editInsert"
              ELSE /\ Len(storycontent') = Len(storycontent)
                   /\ \A i \in DOMAIN storycontent :
                          /\ storycontent'[i].story_id = storycontent[i].story_id
                          /\ storycontent[i].story_id # s
                             => storycontent'[i] = storycontent[i]
                   /\ ContentOf(storycontent', s) = b
        /\ (req[p].pc = "editInsert" /\ RequestStep(p) /\ ~req'[p].err)
           => /\ Len(storycontent') = Len(storycontent) + 1
              /\ SubSeq(storycontent', 1, Len(storycontent)) = storycontent
              /\ Cardinality(ContentsOf(storycontent', s)) = 1
              /\ ContentOf(storycontent', s) = b
        /\ ( /\ req[p].op = "edit" /\ req[p].pc # "done"
             /\ req'[p].pc = "done" /\ req'[p].status = StatusOK /\ ~req'[p].err )
           => GetStoryContent(storydetails', storycontent', s)
                  = [found |-> TRUE, content |-> b]

C15_EditThenGet == [][C15_EditSteps]_vars

\* the second accepted edit of a story is answered: its body is what is stored
C15_Witness ==
    \E p \in Procs :
        /\ serial
        /\ Answered(p, "edit") /\ req[p].status = StatusOK
        /\ req[p].story \in DOMAIN storydetails
        /\ storydetails[req[p].story].updated_at = 2
        /\ Cardinality(ContentsOf(storycontent, req[p].story)) = 1
        /\ ContentOf(storycontent, req[p].story) = "Hello"

\* C16: once the primary effect of a multi-step write is in place (the content
\* upserted by an edit, the fork's metadata inserted by a fork), a failure of
\* the secondary step (the timestamp touch, the copy of the content) is not
\* answered with a fatal error response.
C16_SecondarySteps ==
    \A p \in Procs :
        ( /\ req[p].pc \in {"editTouch", "forkContentDetails", "forkContent", "forkInsert"}
          /\ req'[p].pc = "done"
          /\ req'[p].err )
        => req'[p].status # StatusInternalServerError

C16_SecondaryFailureNotFatal == [][C16_SecondarySteps]_vars

\* C17: with operations run one at a time, delete-all-stories of a principal O
\* who owns no story is answered 200 without any write; otherwise, when it is
\* answered 200, no metadata document owned by O and no content document of
\* the stories O owned remains, and no step of the request changes the
\* metadata or the content of a story owned by another principal.
C17_DeleteAllSteps ==
    \A p \in Procs :
        /\ \A u \in Users :
               (DeleteAllStories(p, u) /\ StoriesOwnedBy(storydetails, {u}) = {})
               => /\ req'[p] = Done("deleteAll", u, NilObjectID, StatusOK, NilObjectID)
                  /\ UNCHANGED <<storydetails, storycontent>>
        /\ ( /\ req[p].op = "deleteAll" /\ req[p].pc # "done"
             /\ req'[p].pc = "done" /\ req'[p].status = StatusOK /\ ~req'[p].err )
           => /\ StoriesOwnedBy(storydetails', {req[p].user}) = {}
              /\ \A s \in req[p].ids :
                     /\ s \notin DOMAIN storydetails'
                     /\ ContentsOf(storycontent', s) = {}
        /\ (req[p].op = "deleteAll" /\ RequestStep(p))
           => /\ \A s \in DOMAIN storydetails :
                     storydetails[s].owner_id # req[p].user
                     => s \in DOMAIN storydetails' /\ storydetails'[s] = storydetails[s]
              /\ \A s \in KnownIDs \ req[p].ids :
                     ContentDocs(storycontent', s) = ContentDocs(storycontent, s)

C17_DeleteAllByOwner == [][C17_DeleteAllSteps]_vars

\* delete-all-stories of a principal is answered: the content documents of
\* the story it owned are gone, the fork of another principal and its content
\* remain
C17_Witness ==
    \E p \in Procs :
        /\ serial
        /\ Answered(p, "deleteAll") /\ req[p].status = StatusOK
        /\ nextId = 3
        /\ DOMAIN storydetails = {2}
        /\ storydetails[2].owner_id # req[p].user
        /\ storycontent = << StoryContent(2, "Hello") >>

\* the positions of a cycle, and the positions a step of the goroutine leads to
CyclePositions == {"distinct", "lookup", "find", "deleteDetails", "deleteContents", "pull"}

NextPositions(pc) ==
    CASE pc = "start"          -> {"distinct"}
      [] pc = "wait"           -> {"distinct", "exited"}
      [] pc = "distinct"       -> {"lookup", "wait"}
      [] pc = "lookup"         -> {"lookup", "find", "wait"}
      [] pc = "find"           -> {"deleteDetails", "wait"}
      [] pc = "deleteDetails"  -> {"deleteContents", "wait"}
      [] pc = "deleteContents" -> {"pull", "wait"}
      [] pc = "pull"           -> {"wait"}
      [] OTHER                 -> {}

\* C18: at most one reconciliation cycle executes at any time: the startup
\* cycle and the cycles of the ticker are steps of one loop, a cycle starts
\* only when no cycle is running, and a running cycle goes on with its own
\* next step until it is back in the loop's select.
C18_OneLoop ==
    /\ cleanup.pc \in {"start", "wait", "exited"} \cup CyclePositions
    /\ ~CycleRunning => cleanup \in {Startup, NoCycle, Exited}

C18_LoopSteps ==
    CleanupStep
    => /\ cleanup'.pc \in NextPositions(cleanup.pc)
       /\ cleanup'.pc = "distinct" => ~CycleRunning
       /\ cleanup'.pc = "distinct" => cleanup' = [NoCycle EXCEPT !.pc = "distinct"]

C18_OneCycleAtATime == []C18_OneLoop /\ [][C18_LoopSteps]_vars

\* a cycle of the loop is at its last storage call while a request is in flight
C18_Witness ==
    /\ ~serial
    /\ cleanup.pc = "pull"
    /\ cleanup.orphanedOwnerIDs # {}
    /\ InFlight # {}

\* C19: the reconciler observes the stop signal only between cycles: raising
\* the signal changes nothing in a running cycle, the goroutine returns only
\* from the loop's select with the signal raised, and once the signal is
\* raised the loop eventually ends: the goroutine returns, unless the process
\* exits before it is scheduled.
C19_StopSteps ==
    /\ stopCleanup' # stopCleanup => cleanup' = cleanup
    /\ (CleanupStep /\ cleanup'.pc = "exited")
       => cleanup.pc = "wait" /\ stopCleanup
    /\ (CleanupStep /\ CycleRunning /\ stopCleanup)
       => cleanup'.pc \in NextPositions(cleanup.pc)

C19_LoopExits == stopCleanup ~> (cleanup.pc = "exited" \/ done)

C19_StopBetweenCycles == [][C19_StopSteps]_vars /\ C19_LoopExits

\* the signal was raised and a cycle is at its last storage call
C19_Witness ==
    /\ ~serial
    /\ stopCleanup
    /\ cleanup.pc = "pull"
    /\ cleanup.orphanedOwnerIDs # {}

\* a cycle returns without error: none of its storage calls failed
CycleCompletes ==
    /\ CleanupDistinct \/ (\E a \in LookupAnswers : CleanupLookup(a)) \/ CleanupPull
    /\ cleanup'.pc = "wait"

\* C20: when a cycle was aborted by a storage failure after its bulk delete of
\* an orphaned owner's metadata, a later cycle that runs without failure
\* completes the cleanup: when it returns, no content document of that owner's
\* stories is left and the owner is in no collaborator sequence it was in.
C20_RetrySteps ==
    CycleCompletes
    => /\ \A s \in AbortedStories : ContentsOf(storycontent', s) = {}
       /\ \A i \in DOMAIN AbortedDetails \cap DOMAIN storydetails' :
              Range(storydetails'[i].collaborators) \cap AbortedOwners = {}

C20_RetryCompletes == [][C20_RetrySteps]_vars

\* C21: a reconciliation cycle is idempotent over the current state: on the
\* collections of every state reached, two complete cycles run back to back
\* with the same identity answers leave what one complete cycle leaves.
C21_CycleIdempotent ==
    \A answer \in [Users -> LookupAnswers] :
        LET one == CompleteCycle(storydetails, storycontent, answer)
        IN CompleteCycle(one.sd, one.sc, answer) = one

\* collections on which a complete cycle deletes metadata and content and
\* pulls a collaborator
C21_Witness ==
    /\ serial
    /\ \E answer \in [Users -> LookupAnswers] :
           LET one == CompleteCycle(storydetails, storycontent, answer)
           IN /\ DOMAIN one.sd # DOMAIN storydetails
              /\ one.sc # storycontent
              /\ \E i \in DOMAIN one.sd :
                     one.sd[i].collaborators # storydetails[i].collaborators

\* C22: when an account in some story's collaborator sequence is orphaned
\* (its lookup would be answered 404), a cycle that runs without failure
\* removes it from the sequence, whether or not the account owns a story.
C22_CollaboratorScrubbed ==
    \A answer \in [Users -> LookupAnswers] :
        LET one == CompleteCycle(storydetails, storycontent, answer)
        IN \A i \in DOMAIN one.sd :
               \A a \in Range(one.sd[i].collaborators) : ~IsOrphaned(answer[a])


\* the request in slot p is answered by the middleware: 401 before any handler
\* has seen it, and nothing is written
C23_Rejected(p) ==
    /\ req'[p].pc = "done" /\ req'[p].status = StatusUnauthorized
    /\ req'[p].user = NilObjectID
    /\ UNCHANGED <<storydetails, storycontent, nextId>>

\* C23: a request of a protected route whose Authorization header does not
\* begin with "Bearer " is rejected and the handler never runs, even when the
\* rest of the header is an otherwise valid token.
C23_PrefixRequired ==
    [][\A p \in Procs :
          (CanAccept(p) /\ RequestStep(p))
          => \A h \in Headers :
                 (ProtectedRequest(p, h) /\ h.present /\ ~h.bearer)
                 => C23_Rejected(p)]_vars

\* the checks C24 lists: signature, expiry, subject, purpose
C24_Checked(h) ==
    /\ h.present
    /\ h.signed
    /\ ~h.expired
    /\ h.subject # NilObjectID
    /\ h.id = "access"

\* C24: the handler of a protected route (create, edit, fork, delete,
\* delete-all, collaborations) runs only with the principal of a token that is
\* signed, unexpired, whose subject parses to an identifier and whose id claim
\* is "access"; with any other token, or none, the request is answered 401
\* and nothing is written.
C24_ProtectedSteps ==
    \A p \in Procs, h \in Headers :
        (CanAccept(p) /\ RequestStep(p) /\ ProtectedRequest(p, h))
        => /\ req'[p].op \in ProtectedOps
           /\ IF C24_Checked(h)
              THEN /\ req'[p].user = h.subject
                   /\ \E u \in Users : u = h.subject /\ HandlerCalled(p, h, u)
              ELSE /\ C23_Rejected(p)
                   /\ UNCHANGED <<storydetails, storycontent, nextId, cleanup>>
                   /\ \A u \in Users : ~HandlerCalled(p, h, u)

C24_ProtectedByToken == [][C24_ProtectedSteps]_vars

\* a request of a protected route has been answered by the middleware
C24_Witness ==
    \E p \in Procs :
        /\ req[p] = Done("delete", NilObjectID, NilObjectID, StatusUnauthorized,
                         NilObjectID)
        /\ storydetails # << >>

\* C25: the token the reconciler mints for the lookup of an owner is not
\* accepted by the middleware as an access token of that owner.
C25_MintedNotAccess ==
    cleanup.pc = "lookup"
    => Min(cleanup.owners) \notin Principal(MintedFor(Min(cleanup.owners)))


\* C26: the forked-from field of a story never changes after the record is
\* inserted, and when it is set in an inserted record (by fork or by create)
\* it names a story whose metadata exists when the record is inserted.
C26_ForkedFromSteps ==
    \A s \in DOMAIN storydetails' :
        IF s \in DOMAIN storydetails
        THEN storydetails'[s].forked_from = storydetails[s].forked_from
        ELSE storydetails'[s].forked_from # NilObjectID
             => storydetails'[s].forked_from \in DOMAIN storydetails

C26_ForkedFromFixed == [][C26_ForkedFromSteps]_vars


\* C27: in every reachable state no story's collaborator sequence contains
\* the story's own owner.
C27_OwnerNotCollaborator ==
    \A s \in DOMAIN storydetails :
        storydetails[s].owner_id \notin Range(storydetails[s].collaborators)


\* the story f and its content documents are as they were before the step
C28_Kept(f) ==
    /\ f \in DOMAIN storydetails'
    /\ storydetails'[f] = storydetails[f]
    /\ ContentDocs(storycontent', f) = ContentDocs(storycontent, f)

\* the story f is a fork whose source no longer exists
C28_Dangling(sd, f) ==
    /\ f \in DOMAIN sd
    /\ sd[f].forked_from # NilObjectID
    /\ sd[f].forked_from \notin DOMAIN sd

\* C28: the storage calls that delete a source story (of delete-story, and of
\* a reconciliation cycle that deletes the stories of orphaned owners) leave
\* the metadata and the content of every fork of it as they were (the forks
\* of other owners, in a cycle), forked-from included; with operations run
\* one at a time the fork is then still read by get-story-content and edited
\* by its owner.
C28_DeleteSteps ==
    /\ \A p \in Procs :
           (req[p].pc \in {"deleteDetails", "deleteContent"} /\ RequestStep(p))
           => \A f \in DOMAIN storydetails \ {req[p].story} :
                  storydetails[f].forked_from = req[p].story => C28_Kept(f)
    /\ (cleanup.pc \in {"deleteDetails", "deleteContents"} /\ CleanupStep)
       => \A f \in DOMAIN storydetails :
              ( /\ storydetails[f].owner_id \notin cleanup.orphanedOwnerIDs
                /\ f \notin cleanup.orphanedStoryIDs
                /\ storydetails[f].forked_from \in cleanup.orphanedStoryIDs )
              => C28_Kept(f)
    /\ \A p \in Procs, s \in KnownIDs :
           (CanAccept(p) /\ C28_Dangling(storydetails, s))
           => /\ GetContent(p, s) => req'[p].pc = "getContentFind"
              /\ \A c \in Contents :
                     EditStory(p, storydetails[s].owner_id, s, c)
                     => req'[p].pc = "editFind"
    /\ \A p \in Procs :
           ( /\ RequestStep(p)
             /\ req'[p].pc = "done"
             /\ ~req'[p].err
             /\ C28_Dangling(storydetails', req[p].story) )
           => /\ req[p].pc = "getContentFind"
                 => /\ req'[p].status = StatusOK
                    /\ req'[p].content = ContentOf(storycontent, req[p].story)
              /\ (req[p].op = "edit" /\ req[p].pc # "idle"
                   /\ req[p].user = storydetails[req[p].story].owner_id)
                 => /\ req'[p].status = StatusOK
                    /\ ContentOf(storycontent', req[p].story) = req[p].content

C28_ForkSurvivesSource == [][C28_DeleteSteps]_vars

\* a fork of story 1 with its copy of the content, never edited, is read
\* after a cycle deleted story 1
C28_Witness ==
    \E p \in Procs :
        /\ Answered(p, "getContent") /\ req[p].status = StatusOK
        /\ req[p].content = "Hello"
        /\ C28_Dangling(storydetails, req[p].story)
        /\ storydetails[req[p].story].forked_from = 1
        /\ storydetails[req[p].story].owner_id = 2
        /\ storydetails[req[p].story].updated_at = 0
        /\ ContentsOf(storycontent, 1) = {}
        /\ Cardinality(ContentsOf(storycontent, req[p].story)) = 1


\* the int a on twice its bytes
C29_Wide(a) ==
    [ i \in 1..(2 * IntBytes) |->
        IF i <= Len(a) THEN a[i] ELSE IF IsNegative(a) THEN Byte - 1 ELSE 0 ]

\* the number (page - 1) * limit, which twice the bytes of an int hold
C29_Product(page, limit) ==
    Mul(Add(C29_Wide(page), C29_Wide(GoInt(-1))), C29_Wide(limit))

\* C29: each of the four list functions skips exactly (page - 1) * limit
\* records: the offset it computes is that number, it is non-negative for
\* page >= 1 and limit >= 0, and negative for page < 1 and limit > 0.
C29_OffsetSteps ==
    \A p \in Procs :
        (RequestStep(p) /\ req'[p].op \in ListFunctions)
        => LET page == req'[p].list.page
               limit == req'[p].list.limit
               skip == req'[p].list.skip
           IN /\ C29_Wide(skip) = C29_Product(page, limit)
              /\ (~IsNegative(page) /\ ~IsZero(page) /\ ~IsNegative(limit))
                 => ~IsNegative(skip)
              /\ ((IsNegative(page) \/ IsZero(page))
                   /\ ~IsNegative(limit) /\ ~IsZero(limit))
                 => IsNegative(skip)

C29_OffsetExact == [][C29_OffsetSteps]_vars


\* the fork-story request in slot p is answered 500 and the forks of its
\* source that the forker owns have no content document
C30_FailedFork(p) ==
    /\ req[p].pc = "done" /\ req[p].op = "fork"
    /\ req[p].status = StatusInternalServerError
    /\ ForksOf(storydetails, req[p].story, req[p].user) # {}
    /\ \A f \in ForksOf(storydetails, req[p].story, req[p].user) :
           ContentsOf(storycontent, f) = {}

C30_FailedForkState ==
    \A p \in Procs :
        C30_FailedFork(p)
        => /\ \A f \in ForksOf(storydetails, req[p].story, req[p].user) :
                  GetStoryContent(storydetails, storycontent, f)
                      = [found |-> TRUE, content |-> ""]
           /\ ForkStoryStatus(storydetails, req[p].user, req[p].story)
                  = IF req[p].story \in DOMAIN storydetails
                    THEN StatusConflict ELSE StatusNotFound

\* a fork that fails after its insert writes nothing more (no rollback), and
\* the fork-story handler answers as ForkStoryStatus says
C30_ForkSteps ==
    \A p \in Procs :
        /\ ( /\ req[p].op = "fork" /\ req[p].inserted # NilObjectID
             /\ RequestStep(p)
             /\ req'[p].status = StatusInternalServerError )
           => /\ storydetails' = storydetails
              /\ storycontent' = storycontent
        /\ \A u \in Users, s \in KnownIDs :
               (CanAccept(p) /\ ForkStory(p, u, s))
               => IF req'[p].pc = "done"
                  THEN /\ req'[p].status = ForkStoryStatus(storydetails, u, s)
                       /\ req'[p].status \in {StatusNotFound, StatusBadRequest}
                  ELSE ForkStoryStatus(storydetails, u, s)
                           \in {StatusConflict, StatusCreated}
        /\ (req[p].pc = "forkFind" /\ RequestStep(p) /\ ~req'[p].err)
           => IF ExistingFork(storydetails, req[p].story, req[p].user)
              THEN /\ req'[p].pc = "done" /\ req'[p].status = StatusConflict
                   /\ UNCHANGED <<storydetails, storycontent>>
              ELSE req'[p].pc = "forkCreate"
        /\ ( /\ req[p].pc = "getContentFind" /\ RequestStep(p) /\ ~req'[p].err
             /\ ContentsOf(storycontent, req[p].story) = {} )
           => req'[p].status = StatusOK /\ req'[p].content = ""

C31_TouchSteps ==
    /\ \A p \in Procs :
           (req[p].pc = "editTouch" /\ RequestStep(p) /\ req'[p].err)
           => /\ storydetails' = storydetails
              /\ storycontent' = storycontent
              /\ ContentOf(storycontent', req[p].story) = req[p].content
    /\ \A s \in DOMAIN storydetails \cap DOMAIN storydetails' :
           storydetails'[s].updated_at # storydetails[s].updated_at
           => \E p \in Procs :
                  /\ req[p].pc = "editTouch" /\ req[p].story = s
                  /\ req'[p] = Done("edit", req[p].user, s, StatusOK, NilObjectID)

C31_StaleTimestamp == [][C31_TouchSteps]_vars

\* the first edit of a created story has failed at the touch: the body is
\* stored and updated_at is as create left it
C31_Witness ==
    \E p \in Procs :
        /\ serial
        /\ req[p].pc = "done" /\ req[p].op = "edit" /\ req[p].err
        /\ req[p].story \in DOMAIN storydetails
        /\ storydetails[req[p].story].forked_from = NilObjectID
        /\ storydetails[req[p].story].updated_at = 0
        /\ ContentOf(storycontent, req[p].story) = "Hello"


\* the service function called by the request in slot p has returned its
\* error "story not found" (no storage error), which the handler answers 500
C32_NotFound(r) ==
    /\ r.pc = "done" /\ r.status = StatusInternalServerError /\ ~r.err
    /\ r.inserted = NilObjectID

\* C32: edit-story and delete-story of an identifier without a metadata
\* document fail as not found and change nothing: the handler answers 404
\* when its own lookup finds nothing, and EditStoryContent and DeleteStory
\* return "story not found" when the metadata is gone by the time they look;
\* no content document is inserted, updated or deleted.
C32_MissingSteps ==
    \A p \in Procs :
        /\ \A u \in Users, s \in KnownIDs \ DOMAIN storydetails :
               CanAccept(p)
               => /\ \A c \in Contents :
                         EditStory(p, u, s, c)
                         => /\ req'[p] = Done("edit", u, s, StatusNotFound, NilObjectID)
                            /\ UNCHANGED <<storydetails, storycontent>>
                  /\ DeleteStory(p, u, s)
                     => /\ req'[p] = Done("delete", u, s, StatusNotFound, NilObjectID)
                        /\ UNCHANGED <<storydetails, storycontent>>
        /\ ( /\ req[p].pc \in {"editFind", "deleteDetails"}
             /\ req[p].story \notin DOMAIN storydetails
             /\ RequestStep(p) /\ ~req'[p].err )
           => /\ C32_NotFound(req'[p])
              /\ UNCHANGED <<storydetails, storycontent>>

C32_MissingChangesNothing == [][C32_MissingSteps]_vars

\* DeleteStory has found no metadata (deleted since the handler's lookup) and
\* has left the content of the story
C32_Witness ==
    \E p \in Procs :
        /\ req[p].op = "delete" /\ C32_NotFound(req[p])
        /\ req[p].story \notin DOMAIN storydetails
        /\ ContentsOf(storycontent, req[p].story) # {}


\* the storage calls of a cycle that come after the lookups
C33_AfterLookups == {"find", "deleteDetails", "deleteContents", "pull"}

\* a cycle makes the calls after its lookups only with an owner found orphaned
C33_CallsNeedOrphan ==
    cleanup.pc \in C33_AfterLookups => cleanup.orphanedOwnerIDs # {}

\* C33: a reconciliation cycle in which no owner lookup returned 404 makes no
\* storage write: as long as no owner is found orphaned the steps of the
\* cycle leave both collections as they are, and the cycle ends with its last
\* lookup.
C33_CycleSteps ==
    (CleanupStep /\ cleanup.orphanedOwnerIDs = {})
    => /\ UNCHANGED <<storydetails, storycontent>>
       /\ cleanup'.pc \in C33_AfterLookups => cleanup'.orphanedOwnerIDs # {}
       /\ ( /\ cleanup.pc = "lookup"
            /\ Cardinality(cleanup.owners) = 1
            /\ cleanup'.orphanedOwnerIDs = {} )
          => cleanup' = NoCycle

C33_NoOrphanNoWrite == []C33_CallsNeedOrphan /\ [][C33_CycleSteps]_vars

\* a cycle over the stories of two owners is at its last lookup and has found
\* no owner orphaned
C33_Witness ==
    /\ cleanup.pc = "lookup"
    /\ cleanup.orphanedOwnerIDs = {}
    /\ Cardinality(cleanup.owners) = 1
    /\ Cardinality({storydetails[s].owner_id : s \in DOMAIN storydetails}) = 2


\* the sequence after is the sequence before without some of its elements,
\* the others in their order
C34_Shrunk(before, after) ==
    \E gone \in SUBSET Range(before) :
        after = SelectSeq(before, LAMBDA c : c \notin gone)

\* C34: once a metadata document is inserted its owner never changes and its
\* collaborator sequence never gains an element; a step of an edit changes
\* nothing in the metadata but updated_at, and a collaborator sequence changes
\* only in the pull of a reconciliation cycle, which removes the orphaned
\* owners from it.
C34_MetadataSteps ==
    /\ \A s \in DOMAIN storydetails \cap DOMAIN storydetails' :
           /\ storydetails'[s].owner_id = storydetails[s].owner_id
           /\ C34_Shrunk(storydetails[s].collaborators, storydetails'[s].collaborators)
           /\ storydetails'[s].collaborators # storydetails[s].collaborators
              => /\ cleanup.pc = "pull" /\ CleanupStep
                 /\ Range(storydetails[s].collaborators)
                        \ Range(storydetails'[s].collaborators)
                    \subseteq cleanup.orphanedOwnerIDs
                 /\ Range(storydetails'[s].collaborators)
                        \cap cleanup.orphanedOwnerIDs = {}
    /\ \A p \in Procs :
           (req[p].op = "edit" /\ RequestStep(p))
           => /\ DOMAIN storydetails' = DOMAIN storydetails
              /\ \A s \in DOMAIN storydetails :
                     [storydetails'[s] EXCEPT !.updated_at = storydetails[s].updated_at]
                         = storydetails[s]

C34_OwnerAndCollaboratorsKept == [][C34_MetadataSteps]_vars

\* a collaborator has edited a story: the story has its owner, its
\* collaborator and the timestamp of the edit
C34_Witness ==
    \E p \in Procs :
        /\ Answered(p, "edit") /\ req[p].status = StatusOK
        /\ req[p].story \in DOMAIN storydetails
        /\ storydetails[req[p].story].owner_id # req[p].user
        /\ storydetails[req[p].story].owner_id \in Users
        /\ storydetails[req[p].story].collaborators = <<req[p].user>>
        /\ storydetails[req[p].story].updated_at = 1


\* C35: every step of a fork-story request, whether the request ends with 201
\* or with an error, leaves the metadata document and the content documents
\* of its source as they are.
C35_ForkSteps ==
    \A p \in Procs :
        (RequestStep(p) /\ req'[p].op = "fork")
        => LET s == req'[p].story IN
           /\ s \in DOMAIN storydetails
              => s \in DOMAIN storydetails' /\ storydetails'[s] = storydetails[s]
           /\ s \notin DOMAIN storydetails => s \notin DOMAIN storydetails'
           /\ ContentDocs(storycontent', s) = ContentDocs(storycontent, s)

C35_ForkLeavesSource == [][C35_ForkSteps]_vars

\* a fork with its copy of the content has been made, and the source has its
\* metadata and its content
C35_Witness ==
    \E p \in Procs :
        /\ Answered(p, "fork") /\ req[p].status = StatusCreated
        /\ req[p].inserted \in DOMAIN storydetails
        /\ req[p].story \in DOMAIN storydetails
        /\ storydetails[req[p].story].updated_at = 1
        /\ ContentOf(storycontent, req[p].story) = "Hello"
        /\ ContentOf(storycontent, req[p].inserted) = "Hello"
        /\ Cardinality(ContentsOf(storycontent, req[p].story)) = 1


\* an operation that selected the story s by its metadata is about to delete
\* the content of s
C36_Selected(s) ==
    \/ \E p \in Procs :
           \/ req[p].pc = "deleteContent" /\ req[p].story = s
           \/ req[p].pc \in {"deleteAllDetails", "deleteAllContents"} /\ s \in req[p].ids
    \/ cleanup.pc \in {"deleteDetails", "deleteContents"}
       /\ s \in cleanup.orphanedStoryIDs

\* C36: with operations run one at a time, a content document of a story
\* without metadata is removed by no later operation: an operation deletes
\* content only of stories it selected by a metadata document that existed
\* (DeleteStory by the document it has just deleted, DeleteAllStoriesByUser
\* and the reconciler by their Find), and content it did not select stays.
C36_ContentSteps ==
    /\ \A s \in { storycontent[i].story_id : i \in DOMAIN storycontent } :
           (s \notin DOMAIN storydetails /\ ~C36_Selected(s))
           => Len(ContentDocs(storycontent', s)) >= Len(ContentDocs(storycontent, s))
    /\ \A p \in Procs :
           /\ (RequestStep(p) /\ req'[p].pc = "deleteContent")
              => /\ req[p].pc = "deleteDetails"
                 /\ req[p].story \in DOMAIN storydetails
           /\ (RequestStep(p) /\ req'[p].pc = "deleteAllDetails")
              => /\ req[p].pc = "idle"
                 /\ req'[p].ids \subseteq DOMAIN storydetails
           /\ (RequestStep(p) /\ req'[p].pc = "deleteAllContents")
              => req[p].pc = "deleteAllDetails" /\ req'[p].ids = req[p].ids
    /\ (CleanupStep /\ cleanup'.pc = "deleteDetails")
       => /\ cleanup.pc = "find"
          /\ cleanup'.orphanedStoryIDs \subseteq DOMAIN storydetails
    /\ (CleanupStep /\ cleanup'.pc = "deleteContents")
       => /\ cleanup.pc = "deleteDetails"
          /\ cleanup'.orphanedStoryIDs = cleanup.orphanedStoryIDs

C37_ForkAgainAfterDelete ==
    \A p \in Procs :
        ( /\ Answered(p, "fork")
          /\ req[p].story \in DOMAIN storydetails
          /\ ~IsSelfFork(req[p].user, storydetails[req[p].story])
          /\ ForksOf(storydetails, req[p].story, req[p].user) \ {req[p].inserted} = {} )
        => /\ req[p].status = StatusCreated
           /\ req[p].inserted \in DOMAIN storydetails
           /\ req[p].inserted = nextId - 1
           /\ storydetails[req[p].inserted].forked_from = req[p].story
           /\ storydetails[req[p].inserted].owner_id = req[p].user

\* user 2, whose fork of story 1 (story 2) is deleted, has forked story 1
\* again: the new fork is story 3
C37_Witness ==
    \E p \in Procs :
        /\ Answered(p, "fork") /\ req[p].status = StatusCreated
        /\ req[p].user = 2 /\ req[p].story = 1 /\ req[p].inserted = 3
        /\ DOMAIN storydetails = {1, 3}
        /\ storydetails[1] = ForkedDetails[1]
        /\ storydetails[3] = ForkedDetails[2]
        /\ ContentsOf(storycontent, 2) = {}


\* C38: an edit writes the content of an existing story only while its
\* principal is the story's owner or a member of its collaborator sequence:
\* at every UpdateOne or InsertOne on storycontent made for an edit-story
\* request, the policy of Server.EditStory holds of the storydetails document
\* as it is at that step.
C38_WriteSteps ==
    \A p \in Procs :
        ( /\ req[p].pc \in {"editUpdate", "editInsert"}
          /\ req'[p].pc = "editTouch"
          /\ storycontent' # storycontent
          /\ req[p].story \in DOMAIN storydetails )
        => IsAuthorized(req[p].user, storydetails[req[p].story])

C38_AuthorizedAtWrite == [][C38_WriteSteps]_vars


\* C39: once stopCleanup is closed, the goroutine's loop starts no further
\* cycle: no step taken at the loop's select while stopCleanup is closed
\* enters CleanupOrphanedStories, also when the ticker's tick is ready at the
\* same select.
C39_LoopSteps ==
    (stopCleanup /\ cleanup.pc = "wait") => cleanup'.pc # "distinct"

C39_NoCycleAfterStop == [][C39_LoopSteps]_vars


\* C40: when main has received from done and returned, no reconciliation
\* cycle is in progress: the shutdown sequence has waited for the cycle that
\* was running when stopCleanup was closed.
C40_NoCycleAtExit == done => ~CycleRunning

====
